---- MODULE Spec2Model ----
(***************************************************************************)
(* Model of the two report scripts of Github-utils:                        *)
(*   merged_prs/fetch_all_merged_prs.py      (REST pipeline)               *)
(*   merged_prs/fetch_specific_merged_prs.py (GraphQL pipeline)            *)
(* A behaviour is one run of one script (main), optionally followed by a   *)
(* second run against the same upstream (Rerun, only in SpecRerun).        *)
(*                                                                         *)
(* Encoding of the JSON and Python values the scripts handle:              *)
(*  - short texts (titles, logins, commit ids, cursors) are TLA+ strings;  *)
(*    Python's None is PyNone and a key that is missing from a dict is     *)
(*    Absent;                                                              *)
(*  - texts the code slices, compares or matches character by character    *)
(*    (timestamps, dates, file paths, glob patterns) are sequences of      *)
(*    one-character strings, and None is NoneSeq;                          *)
(*  - a nested object of which the code reads one field is represented by  *)
(*    that field: {"login": "alice"} by "alice", {"oid": s} by s,          *)
(*    {"path": p} by p, and a null object by PyNone.                       *)
(***************************************************************************)
EXTENDS Integers, Sequences, FiniteSets, TLC

\* ------------------------------------------------------------------ bounds
\* Pull requests the upstream holds (closed ones for the REST endpoint, merged
\* ones for the GraphQL endpoint), over all its pages.
MaxItems == 3
\* Reviews of one pull request.
MaxReviews == 2
\* Cap on the number of HTTP requests of one run (never reached by the code
\* as written: it only stops a run that would not terminate).
MaxRequests == 20

\* ---------------------------------------------------------- Python values
PyNone == "<None>"
Absent == "<absent>"
NoneSeq == <<"<None>">>

\* bool(v) of a str-or-None value.
Truthy(v) == v /= PyNone /\ v /= ""
\* bool(s) of a character sequence or None.
TruthySeq(s) == s /= NoneSeq /\ s /= <<>>
\* dict.get(key, default), the entry being Absent when the key is missing.
DictGet(v, default) == IF v = Absent THEN default ELSE v
\* csv.writer writes None as the empty string.
CsvCell(v) == IF v = PyNone THEN "" ELSE v

\* The characters of the model's texts in code point order.
CodePoints ==
  <<" ", "*", ",", "-", ".", "/",
    "0", "1", "2", "3", "4", "5", "6", "7", "8", "9", ":", "?",
    "A", "D", "E", "M", "R", "T", "Z",
    "a", "c", "d", "e", "g", "i", "m", "n", "o", "r", "s", "y">>
Ord(c) == CHOOSE i \in 1..Len(CodePoints) : CodePoints[i] = c

\* a < b for Python str: the first differing character decides, and a proper
\* prefix is smaller.
RECURSIVE StrLess(_, _)
StrLess(a, b) ==
  IF b = <<>> THEN FALSE
  ELSE IF a = <<>> THEN TRUE
  ELSE IF Head(a) = Head(b) THEN StrLess(Tail(a), Tail(b))
  ELSE Ord(Head(a)) < Ord(Head(b))

\* s[:n]
Slice(s, n) == SubSeq(s, 1, IF Len(s) < n THEN Len(s) ELSE n)

\* sep.join(parts) for character sequences.
RECURSIVE JoinSeq(_, _)
JoinSeq(parts, sep) ==
  IF parts = <<>> THEN <<>>
  ELSE IF Len(parts) = 1 THEN parts[1]
  ELSE parts[1] \o sep \o JoinSeq(Tail(parts), sep)

\* sep.join(parts) for short texts.
RECURSIVE JoinStr(_, _)
JoinStr(parts, sep) ==
  IF parts = <<>> THEN ""
  ELSE IF Len(parts) = 1 THEN parts[1]
  ELSE parts[1] \o sep \o JoinStr(Tail(parts), sep)

\* s.split(','): always at least one part.
RECURSIVE SplitFrom(_, _)
SplitFrom(s, cur) ==
  IF s = <<>> THEN <<cur>>
  ELSE IF Head(s) = "," THEN <<cur>> \o SplitFrom(Tail(s), <<>>)
  ELSE SplitFrom(Tail(s), Append(cur, Head(s)))
Split(s) == SplitFrom(s, <<>>)

\* All orders in which the elements of a Python set can be listed: the order
\* of list(set_of_str) depends on the process's string hash seed.
Orderings(S) ==
  {s \in [1..Cardinality(S) -> S] : \A i, j \in 1..Cardinality(S) : i /= j => s[i] /= s[j]}

SeqsUpTo(S, n) == UNION {[1..k -> S] : k \in 0..n}
\* The contents of a page with room for at most `room` items: the first item
\* is of one of the kinds `first`, the others of one of the kinds `others`.
KindLists(first, others, room) ==
  {<<>>} \cup (IF room = 0 THEN {}
              ELSE {<<a>> \o r : a \in first, r \in SeqsUpTo(others, room - 1)})

\* ------------------------------------------------------------------ state
VARIABLES
  pipeline,     \* which script runs: "rest" or "graphql"
  config,       \* the keys of config.properties (PyNone/NoneSeq: key missing)
  pc,           \* position of main
  requests,     \* HTTP requests issued by this run, in order
  upstream,     \* responses of the hosting platform revealed so far
  page,         \* REST loop variable
  has_next_page,\* GraphQL loop variable
  cursor,       \* GraphQL loop variable
  merged_prs,   \* the accumulated sequence of either fetcher
  idx,          \* write_to_csv loop index (1-based) of the REST script
  file,         \* the CSV file of today on disk
  fileAtStart,  \* the CSV file as it was when this run started
  run,          \* 1 on the first run, 2 on the re-run
  prevFile,     \* the CSV file the first run left
  prevPc        \* how the first run ended

vars == <<pipeline, config, pc, requests, upstream, page, has_next_page, cursor,
          merged_prs, idx, file, fileAtStart, run, prevFile, prevPc>>

\* ------------------------------------------------------------------- files
HEADER_ROW ==
  <<"PR URL", "PR Number", "Title", "Author", "Merged By",
    "Merge Commit SHA", "Merged At", "Approved By", "Modified Files">>
NoFile == [exists |-> FALSE, header |-> <<>>, rows |-> <<>>]
\* open(filepath, mode='w') followed by the header writerow.
OpenedFile == [exists |-> TRUE, header |-> HEADER_ROW, rows |-> <<>>]
\* A report an earlier run of the same day left behind.
StaleFile == [exists |-> TRUE, header |-> HEADER_ROW, rows |-> <<[stale |-> TRUE]>>]

\* ---------------------------------------------------------------- requests
Request(api, p, n, after) == [api |-> api, page |-> p, number |-> n, after |-> after]

\* The response to a request with the given key: the one already revealed, or
\* any of the fresh ones.
Serve(memo, key, fresh) == IF key \in DOMAIN memo THEN {memo[key]} ELSE fresh
Remember(memo, key, resp) == IF key \in DOMAIN memo THEN memo ELSE memo @@ (key :> resp)

\* ------------------------------------------------------------------ config
TOKEN == "ghp_token"
OWNER == "octo"
REPO == "utils"
START_DATE == <<"2","0","2","4","-","0","1","-","0","1">>
END_DATE == <<"2","0","2","4","-","0","1","-","3","1">>
PATHS_ONE == <<"s","r","c","/","*",".","g","o">>
PATHS_TWO == <<"d","o","c","s","/","*",",","s","r","c","/","?","a","i","n",".","g","o">>

RestConfigs ==
  [github_token : {PyNone, "", TOKEN}, repo_owner : {PyNone, OWNER},
   repo_name : {PyNone, REPO},
   included_paths : {NoneSeq}, start_date : {NoneSeq}, end_date : {NoneSeq}]
GraphqlConfigs ==
  [github_token : {PyNone, "", TOKEN}, repo_owner : {PyNone, OWNER},
   repo_name : {PyNone, REPO},
   included_paths : {NoneSeq, PATHS_ONE, PATHS_TWO},
   start_date : {NoneSeq, START_DATE}, end_date : {NoneSeq, END_DATE}]

\* all([...]) of load_config of the REST script.
RestConfigComplete(c) ==
  Truthy(c.github_token) /\ Truthy(c.repo_owner) /\ Truthy(c.repo_name)
\* all([...]) of load_config of the GraphQL script: included_paths is not in
\* the list.
GraphqlConfigComplete(c) ==
  /\ Truthy(c.github_token) /\ Truthy(c.repo_owner) /\ Truthy(c.repo_name)
  /\ TruthySeq(c.start_date) /\ TruthySeq(c.end_date)
\* config.get("DEFAULT", "included_paths", fallback="").split(',')
IncludedPaths(c) ==
  Split(IF c.included_paths = NoneSeq THEN <<>> ELSE c.included_paths)

Init ==
  /\ pipeline \in {"rest", "graphql"}
  /\ config \in (IF pipeline = "rest" THEN RestConfigs ELSE GraphqlConfigs)
  /\ pc = "start"
  /\ requests = <<>>
  /\ upstream = [pages |-> <<>>, reviews |-> <<>>, files |-> <<>>, pull |-> <<>>,
                 graphql |-> <<>>]
  /\ page = 1
  /\ has_next_page = TRUE
  /\ cursor = PyNone
  /\ merged_prs = <<>>
  /\ idx = 1
  /\ file \in {NoFile, StaleFile}
  /\ fileAtStart = file
  /\ run = 1
  /\ prevFile = NoFile
  /\ prevPc = "none"

\* load_config of either script, called first by main.
LoadConfig ==
  /\ pc = "start"
  /\ pc' = IF pipeline = "rest"
           THEN (IF RestConfigComplete(config) THEN "fetch" ELSE "exited")
           ELSE (IF GraphqlConfigComplete(config) THEN "fetch" ELSE "exited")
  /\ UNCHANGED <<pipeline, config, requests, upstream, page, has_next_page, cursor,
                 merged_prs, idx, file, fileAtStart, run, prevFile, prevPc>>

\* ------------------------------------------------- REST pipeline: upstream
TS_BEFORE == <<"2","0","2","3","-","1","2","-","3","1","T","2","3",":","5","9",":","0","0","Z">>
TS_START == <<"2","0","2","4","-","0","1","-","0","1","T","0","0",":","0","0",":","0","0","Z">>
TS_MID == <<"2","0","2","4","-","0","1","-","1","5","T","1","0",":","0","0",":","0","0","Z">>
TS_END == <<"2","0","2","4","-","0","1","-","3","1","T","2","3",":","5","9",":","5","9","Z">>
TS_AFTER == <<"2","0","2","4","-","0","2","-","0","1","T","0","0",":","0","0",":","0","0","Z">>

\* What the pulls endpoint says of one closed pull request.
MergedShape ==
  [title |-> "Fix parser", user |-> "alice", merge_commit_sha |-> "abc123",
   merged_at |-> TS_MID]
UnmergedShape ==
  [title |-> "Abandoned", user |-> "bob", merge_commit_sha |-> PyNone,
   merged_at |-> NoneSeq]
\* A merged pull request with one text field null or missing.
UnusualShapes ==
  {[MergedShape EXCEPT !.title = v] : v \in {PyNone, Absent}}
    \cup {[MergedShape EXCEPT !.user = v] : v \in {PyNone, Absent}}
    \cup {[MergedShape EXCEPT !.merge_commit_sha = v] : v \in {PyNone, Absent}}
\* The unusual records are served as the first item of the first page only.
RestFirstShapes(served) ==
  IF served = 0 THEN {MergedShape, UnmergedShape} \cup UnusualShapes
  ELSE {MergedShape, UnmergedShape}

RestItem(n, shape) ==
  [number |-> n,
   html_url |-> "https://github.com/octo/utils/pull/" \o ToString(n),
   title |-> shape.title, user |-> shape.user,
   merge_commit_sha |-> shape.merge_commit_sha, merged_at |-> shape.merged_at]

\* Items on the pages revealed so far.
RECURSIVE ItemsServed(_, _)
ItemsServed(pages, keys) ==
  IF keys = {} THEN 0
  ELSE LET key == CHOOSE x \in keys : TRUE
       IN Len(pages[key].data) + ItemsServed(pages, keys \ {key})

\* A page of the pulls endpoint, `served` items being on the pages before it:
\* any number of the items that are left, none when none is left.
RestPageData(served) ==
  {[i \in DOMAIN sh |-> RestItem(served + i, sh[i])] :
     sh \in KindLists(RestFirstShapes(served), {MergedShape, UnmergedShape},
                     MaxItems - served)}
RestPageResponses(served) ==
  {[status |-> 500, data |-> <<>>]}
    \cup {[status |-> 200, data |-> d] : d \in RestPageData(served)}

Reviews ==
  {[user |-> "alice", state |-> "APPROVED"], [user |-> "bob", state |-> "APPROVED"],
   [user |-> "bob", state |-> "COMMENTED"], [user |-> PyNone, state |-> "APPROVED"],
   [user |-> PyNone, state |-> "COMMENTED"]}
ReviewsResponses ==
  {[status |-> 404, data |-> <<>>]}
    \cup {[status |-> 200, data |-> d] : d \in SeqsUpTo(Reviews, MaxReviews)}
FilesResponses ==
  {[status |-> 404, data |-> <<>>],
   [status |-> 200, data |-> <<<<"s","r","c","/","m","a","i","n",".","g","o">>, <<"R","E","A","D","M","E",".","m","d">>>>]}
PullResponses ==
  {[status |-> 404, merged_by |-> PyNone], [status |-> 200, merged_by |-> "carol"],
   [status |-> 200, merged_by |-> PyNone]}
\* The follow-up calls of the first pull request, when its record is the usual
\* one, fail in any combination and return any of the payloads; those of
\* another pull request fail together or return the usual payloads.
FollowUps(pr) ==
  IF pr.number = 1 /\ pr = RestItem(1, MergedShape)
  THEN ReviewsResponses \X FilesResponses \X PullResponses
  ELSE {<<[status |-> 404, data |-> <<>>], [status |-> 404, data |-> <<>>],
          [status |-> 404, merged_by |-> PyNone]>>,
        <<[status |-> 200, data |-> <<[user |-> "alice", state |-> "APPROVED"]>>],
          [status |-> 200, data |-> <<<<"s","r","c","/","m","a","i","n",".","g","o">>, <<"R","E","A","D","M","E",".","m","d">>>>],
          [status |-> 200, merged_by |-> "carol"]>>}

\* ---------------------------------------------------- REST pipeline: code
\* Mutant: every closed pull request is kept, merged or not.
HasMergedAt_KeepAll(pr) == pr.merged_at = NoneSeq \/ TruthySeq(pr.merged_at)
\* if pr.get("merged_at")
HasMergedAt(pr) == TruthySeq(pr.merged_at)

\* One iteration of the while loop of get_all_merged_pull_requests; the
\* iteration that reads the empty page returns to main.
FetchPageRest ==
  /\ pipeline = "rest" /\ pc = "fetch"
  /\ Len(requests) < MaxRequests
  /\ \E resp \in Serve(upstream.pages, page,
                        RestPageResponses(ItemsServed(upstream.pages, DOMAIN upstream.pages))) :
       /\ requests' = Append(requests, Request("pulls", page, 0, PyNone))
       /\ upstream' = [upstream EXCEPT !.pages = Remember(@, page, resp)]
       /\ IF resp.status /= 200
          THEN pc' = "exited" /\ UNCHANGED <<merged_prs, page>>
          ELSE IF resp.data = <<>>
          THEN pc' = "fetched" /\ UNCHANGED <<merged_prs, page>>
          ELSE /\ merged_prs' = merged_prs \o SelectSeq(resp.data, HasMergedAt)
               /\ page' = page + 1
               /\ pc' = "fetch"
  /\ UNCHANGED <<pipeline, config, has_next_page, cursor, idx, file, fileAtStart,
                 run, prevFile, prevPc>>

\* main: "if not merged_prs" after either fetcher.
ReportNothing ==
  /\ pc = "fetched" /\ merged_prs = <<>>
  /\ pc' = "done"
  /\ UNCHANGED <<pipeline, config, requests, upstream, page, has_next_page, cursor,
                 merged_prs, idx, file, fileAtStart, run, prevFile, prevPc>>

\* write_to_csv of the REST script up to its loop: the file is opened for
\* writing (truncated) and the header row is written.
OpenCsvRest ==
  /\ pipeline = "rest" /\ pc = "fetched" /\ merged_prs /= <<>>
  /\ file' = OpenedFile
  /\ idx' = 1
  /\ pc' = "write"
  /\ UNCHANGED <<pipeline, config, requests, upstream, page, has_next_page, cursor,
                 merged_prs, fileAtStart, run, prevFile, prevPc>>

\* Mutant: the state of the review is not tested.
ApprovedLogins_AnyState(reviews) == {reviews[i].user : i \in DOMAIN reviews}
\* get_approved_by: the logins of the APPROVED reviews as a set, and whether
\* building it raises (review["user"] is None for an APPROVED review).
ApprovedLogins(reviews) ==
  {reviews[i].user : i \in {j \in DOMAIN reviews : reviews[j].state = "APPROVED"}}
get_approved_by(resp) ==
  IF resp.status /= 200 THEN [raises |-> FALSE, logins |-> {}]
  ELSE [raises |-> PyNone \in ApprovedLogins(resp.data),
        logins |-> ApprovedLogins(resp.data) \ {PyNone}]
get_modified_files(resp) == IF resp.status /= 200 THEN <<>> ELSE resp.data
get_merged_by_user(resp) ==
  IF resp.status /= 200 THEN "N/A"
  ELSE IF resp.merged_by /= PyNone THEN resp.merged_by ELSE "N/A"

\* pr.get("user", {}).get("login", "N/A") raises when "user" is null.
AuthorRaises(pr) == pr.user = PyNone
RestRow(pr, approvers, files, merged_by) ==
  [url |-> pr.html_url,
   number |-> pr.number,
   title |-> CsvCell(DictGet(pr.title, "N/A")),
   author |-> CsvCell(DictGet(pr.user, "N/A")),
   merged_by |-> merged_by,
   merge_commit_sha |-> CsvCell(DictGet(pr.merge_commit_sha, "N/A")),
   merged_at |-> pr.merged_at,
   approved_by |-> JoinStr(approvers, ", "),
   files |-> JoinSeq(files, <<","," ">>)]

\* One iteration of the loop of write_to_csv of the REST script: the three
\* follow-up calls, then the row. After the last row the file is closed and
\* main returns.
WriteRowRest ==
  /\ pipeline = "rest" /\ pc = "write" /\ idx <= Len(merged_prs)
  /\ Len(requests) + 3 <= MaxRequests
  /\ LET pr == merged_prs[idx]
         n == pr.number
     IN \E t \in FollowUps(pr) :
        \E rv \in Serve(upstream.reviews, n, {t[1]}),
           fl \in Serve(upstream.files, n, {t[2]}),
           pl \in Serve(upstream.pull, n, {t[3]}) :
          LET ap == get_approved_by(rv)
              rq1 == Append(requests, Request("reviews", 0, n, PyNone))
              rq3 == rq1 \o <<Request("files", 0, n, PyNone), Request("pull", 0, n, PyNone)>>
              up1 == [upstream EXCEPT !.reviews = Remember(@, n, rv)]
              up3 == [up1 EXCEPT !.files = Remember(@, n, fl), !.pull = Remember(@, n, pl)]
          IN IF ap.raises
             THEN /\ requests' = rq1 /\ upstream' = up1
                  /\ pc' = "crashed" /\ UNCHANGED <<file, idx>>
             ELSE IF AuthorRaises(pr)
             THEN /\ requests' = rq3 /\ upstream' = up3
                  /\ pc' = "crashed" /\ UNCHANGED <<file, idx>>
             ELSE \E approvers \in Orderings(ap.logins) :
                    /\ requests' = rq3 /\ upstream' = up3
                    /\ file' = [file EXCEPT !.rows = Append(@,
                                  RestRow(pr, approvers, get_modified_files(fl),
                                          get_merged_by_user(pl)))]
                    /\ idx' = idx + 1
                    /\ pc' = IF idx = Len(merged_prs) THEN "done" ELSE "write"
  /\ UNCHANGED <<pipeline, config, page, has_next_page, cursor, merged_prs,
                 fileAtStart, run, prevFile, prevPc>>

\* ---------------------------------------------- GraphQL pipeline: upstream
\* What the query returns of one merged pull request: reviews holds the
\* author login of each APPROVED review (states: APPROVED is in the query).
MidShape ==
  [title |-> "Fix parser", author |-> "alice", mergedAt |-> TS_MID,
   mergedBy |-> "carol", mergeCommit |-> "abc123",
   files |-> <<<<"s","r","c","/","m","a","i","n",".","g","o">>, <<"R","E","A","D","M","E",".","m","d">>>>, reviews |-> <<"alice">>]
OldShape == [MidShape EXCEPT !.mergedAt = TS_BEFORE]
FileLists ==
  {<<<<"s","r","c","/","m","a","i","n",".","g","o">>, <<"R","E","A","D","M","E",".","m","d">>>>, <<<<"d","o","c","s","/","r","e","a","d","m","e",".","m","d">>>>, <<<<"R","E","A","D","M","E",".","m","d">>>>, <<>>}
VariedShapes ==
  {[MidShape EXCEPT !.mergedAt = t, !.files = f] :
     t \in {NoneSeq, TS_BEFORE, TS_START, TS_MID, TS_END, TS_AFTER}, f \in FileLists}
    \cup {[MidShape EXCEPT !.author = PyNone], [MidShape EXCEPT !.mergedBy = PyNone],
          [MidShape EXCEPT !.mergeCommit = PyNone]}
    \cup {[MidShape EXCEPT !.reviews = r] :
            r \in SeqsUpTo({"alice", "bob", PyNone}, MaxReviews)}
\* The varied records are served as the first item of the first page only.
GraphqlFirstShapes(served) ==
  IF served = 0 THEN {MidShape, OldShape} \cup VariedShapes ELSE {MidShape, OldShape}

GraphqlNode(n, shape) ==
  [number |-> n,
   url |-> "https://github.com/octo/utils/pull/" \o ToString(n),
   title |-> shape.title, author |-> shape.author, mergedAt |-> shape.mergedAt,
   mergedBy |-> shape.mergedBy, mergeCommit |-> shape.mergeCommit,
   files |-> shape.files, reviews |-> shape.reviews]

RECURSIVE NodesServed(_, _)
NodesServed(pages, keys) ==
  IF keys = {} THEN 0
  ELSE LET key == CHOOSE x \in keys : TRUE
       IN Len(pages[key].nodes) + NodesServed(pages, keys \ {key})

\* The items of a page, `served` items being on the pages before it: any
\* number of the items that are left, and at least one on a page that
\* follows another.
GraphqlNodes(served) ==
  {nodes \in {[i \in DOMAIN sh |-> GraphqlNode(served + i, sh[i])] :
               sh \in KindLists(GraphqlFirstShapes(served), {MidShape, OldShape},
                               MaxItems - served)} :
     served > 0 => nodes /= <<>>}

\* The k-th page of the endpoint: a page with items carries an end cursor,
\* and hasNextPage says whether items are left after it.
GraphqlPage(nodes, more, k) ==
  [json |-> TRUE, errors |-> FALSE, data |-> TRUE, repository |-> TRUE,
   nodes |-> nodes, hasNextPage |-> more,
   endCursor |-> IF nodes = <<>> THEN PyNone ELSE "cursor" \o ToString(k)]
\* A body that is not JSON; a body with an errors array, without data or with
\* partial data; a body without "data"; a body whose repository is null.
GraphqlFailure(json, errors, data, repository) ==
  [json |-> json, errors |-> errors, data |-> data, repository |-> repository,
   nodes |-> <<>>, hasNextPage |-> FALSE, endCursor |-> PyNone]
GraphqlResponses(k, served) ==
  {GraphqlFailure(FALSE, FALSE, FALSE, FALSE), GraphqlFailure(TRUE, TRUE, FALSE, FALSE),
   GraphqlFailure(TRUE, TRUE, TRUE, TRUE), GraphqlFailure(TRUE, FALSE, FALSE, FALSE),
   GraphqlFailure(TRUE, FALSE, TRUE, FALSE)}
    \cup {r \in {GraphqlPage(nodes, more, k) :
                   nodes \in GraphqlNodes(served), more \in BOOLEAN} :
            r.hasNextPage => (r.nodes /= <<>> /\ served + Len(r.nodes) < MaxItems)}

\* -------------------------------------------------- GraphQL pipeline: code
\* fnmatch.fnmatch(name, pat) on a platform whose os.path.normcase is the
\* identity, for patterns of literals, '*' and '?'.
RECURSIVE fnmatch(_, _)
fnmatch(name, pat) ==
  IF pat = <<>> THEN name = <<>>
  ELSE IF Head(pat) = "*"
  THEN fnmatch(name, Tail(pat)) \/ (name /= <<>> /\ fnmatch(Tail(name), pat))
  ELSE IF Head(pat) = "?"
  THEN name /= <<>> /\ fnmatch(Tail(name), Tail(pat))
  ELSE name /= <<>> /\ Head(name) = Head(pat) /\ fnmatch(Tail(name), Tail(pat))

matches_included_paths(filename, patterns) ==
  \E i \in DOMAIN patterns : fnmatch(filename, patterns[i])

\* merged_at[:10]
MergedAtDate(pr) == Slice(pr.mergedAt, 10)
\* The item is counted in older_pr_count.
IsOlder(pr, start_date) ==
  TruthySeq(pr.mergedAt) /\ StrLess(MergedAtDate(pr), start_date)
\* Mutant: the end date is excluded from the window.
IsKept_ExclusiveEnd(pr, start_date, end_date, included_paths) ==
  /\ TruthySeq(pr.mergedAt)
  /\ ~StrLess(MergedAtDate(pr), start_date)
  /\ StrLess(MergedAtDate(pr), end_date)
  /\ \E i \in DOMAIN pr.files : matches_included_paths(pr.files[i], included_paths)
\* The item reaches merged_prs.append.
IsKept(pr, start_date, end_date, included_paths) ==
  /\ TruthySeq(pr.mergedAt)
  /\ ~StrLess(MergedAtDate(pr), start_date)
  /\ ~StrLess(end_date, MergedAtDate(pr))
  /\ \E i \in DOMAIN pr.files : matches_included_paths(pr.files[i], included_paths)

\* {review["author"]["login"] for review in ... if review["author"]}
Approvers(pr) == {pr.reviews[i] : i \in DOMAIN pr.reviews} \ {PyNone}

GraphqlRecord(pr, approvers) ==
  [url |-> pr.url,
   number |-> pr.number,
   title |-> pr.title,
   author |-> IF pr.author /= PyNone THEN pr.author ELSE "N/A",
   merged_by |-> IF pr.mergedBy /= PyNone THEN pr.mergedBy ELSE "N/A",
   merge_commit_sha |-> IF pr.mergeCommit /= PyNone THEN pr.mergeCommit ELSE "N/A",
   merged_at |-> pr.mergedAt,
   approved_by |-> JoinStr(approvers, ", "),
   files |-> JoinSeq(pr.files, <<","," ">>)]

\* The records the for loop over one page appends, order[i] being the order
\* in which the approver set of item i is listed.
RECURSIVE PageRecords(_, _, _, _)
PageRecords(nodes, order, c, i) ==
  IF i > Len(nodes) THEN <<>>
  ELSE (IF IsKept(nodes[i], c.start_date, c.end_date, IncludedPaths(c))
        THEN <<GraphqlRecord(nodes[i], order[i])>> ELSE <<>>)
       \o PageRecords(nodes, order, c, i + 1)
\* Mutant: the counter is incremented after the path filter.
older_pr_count_AfterPathFilter(nodes, c) ==
  Cardinality({i \in DOMAIN nodes :
     /\ IsOlder(nodes[i], c.start_date)
     /\ \E j \in DOMAIN nodes[i].files :
          matches_included_paths(nodes[i].files[j], IncludedPaths(c))})
older_pr_count(nodes, c) ==
  Cardinality({i \in DOMAIN nodes : IsOlder(nodes[i], c.start_date)})
ApproverOrders(nodes) ==
  {f \in [DOMAIN nodes -> UNION {Orderings(Approvers(nodes[i])) : i \in DOMAIN nodes}] :
     \A i \in DOMAIN nodes : f[i] \in Orderings(Approvers(nodes[i]))}

\* Mutant: the query never carries the cursor.
after_clause_Dropped(c) == IF Truthy(c) THEN PyNone ELSE PyNone
\* after_clause: the cursor the request carries, none for a falsy cursor.
after_clause(c) == IF Truthy(c) THEN c ELSE PyNone
\* Mutant: the errors array is not looked at.
GraphqlFailed_NoErrorsCheck(resp) == ~resp.json \/ ~resp.data \/ ~resp.repository
\* The three fatal checks on a response: response.json() raises, "errors" in
\* data, "data" missing or no repository in it.
GraphqlFailed(resp) == ~resp.json \/ resp.errors \/ ~resp.data \/ ~resp.repository

\* One iteration of the while loop of fetch_merged_prs_graphql; the iteration
\* that leaves has_next_page false returns to main.
FetchPageGraphql ==
  /\ pipeline = "graphql" /\ pc = "fetch"
  /\ Len(requests) < MaxRequests
  /\ LET after == after_clause(cursor)
         k == Cardinality(DOMAIN upstream.graphql) + 1
         served == NodesServed(upstream.graphql, DOMAIN upstream.graphql)
     IN \E resp \in Serve(upstream.graphql, after, GraphqlResponses(k, served)) :
          /\ requests' = Append(requests, Request("graphql", 0, 0, after))
          /\ upstream' = [upstream EXCEPT !.graphql = Remember(@, after, resp)]
          /\ IF GraphqlFailed(resp)
             THEN pc' = "exited" /\ UNCHANGED <<merged_prs, has_next_page, cursor>>
             ELSE \E order \in ApproverOrders(resp.nodes) :
                    LET stop == older_pr_count(resp.nodes, config) = Len(resp.nodes)
                    IN /\ merged_prs' =
                            merged_prs \o PageRecords(resp.nodes, order, config, 1)
                       /\ cursor' = IF resp.hasNextPage THEN resp.endCursor ELSE PyNone
                       /\ has_next_page' = (resp.hasNextPage /\ ~stop)
                       /\ pc' = IF has_next_page' THEN "fetch" ELSE "fetched"
  /\ UNCHANGED <<pipeline, config, page, idx, file, fileAtStart, run, prevFile, prevPc>>

\* write_to_csv of the GraphQL script: no call is made between the rows.
CsvRow(r) == [r EXCEPT !.title = CsvCell(@)]
WriteCsvGraphql ==
  /\ pipeline = "graphql" /\ pc = "fetched" /\ merged_prs /= <<>>
  /\ file' = [OpenedFile EXCEPT !.rows = [i \in DOMAIN merged_prs |-> CsvRow(merged_prs[i])]]
  /\ pc' = "done"
  /\ UNCHANGED <<pipeline, config, requests, upstream, page, has_next_page, cursor,
                 merged_prs, idx, fileAtStart, run, prevFile, prevPc>>

\* The script is started again on the same day against the same upstream.
Rerun ==
  /\ run = 1 /\ pc \in {"done", "exited", "crashed"}
  /\ run' = 2
  /\ prevFile' = file
  /\ prevPc' = pc
  /\ fileAtStart' = file
  /\ pc' = "start"
  /\ requests' = <<>>
  /\ page' = 1
  /\ has_next_page' = TRUE
  /\ cursor' = PyNone
  /\ merged_prs' = <<>>
  /\ idx' = 1
  /\ UNCHANGED <<pipeline, config, upstream, file>>

Next ==
  \/ LoadConfig
  \/ FetchPageRest
  \/ OpenCsvRest
  \/ WriteRowRest
  \/ FetchPageGraphql
  \/ WriteCsvGraphql
  \/ ReportNothing

Spec == Init /\ [][Next]_vars

SpecRerun == Init /\ [][Next \/ Rerun]_vars

\* ================================================================= claims
Range(f) == {f[i] : i \in DOMAIN f}
\* This run of the REST script is in write_to_csv or has left it.
RestReport ==
  pipeline = "rest" /\ (pc \in {"write", "crashed"} \/ (pc = "done" /\ merged_prs /= <<>>))
\* This run of the GraphQL script has written its report.
GraphqlReport == pipeline = "graphql" /\ pc = "done" /\ merged_prs /= <<>>

Digit(c) == Ord(c) - Ord("0")
\* The calendar date YYYY-MM-DD as the number YYYYMMDD.
DateNumber(d) ==
  (Digit(d[1]) * 1000 + Digit(d[2]) * 100 + Digit(d[3]) * 10 + Digit(d[4])) * 10000
    + (Digit(d[6]) * 10 + Digit(d[7])) * 100 + Digit(d[9]) * 10 + Digit(d[10])
MergeDay(ts) == DateNumber(SubSeq(ts, 1, 10))

\* The response to the i-th request of this run.
RestPageOf(i) == upstream.pages[requests[i].page]
GraphqlPageOf(i) == upstream.graphql[requests[i].after]
\* The items the GraphQL fetcher has been given in this run.
FetchedNodes == UNION {Range(GraphqlPageOf(i).nodes) : i \in 1..Len(requests)}
NodeOf(n) == CHOOSE node \in FetchedNodes : node.number = n
Accumulated(n) == \E r \in DOMAIN merged_prs : merged_prs[r].number = n

\* ---- C1
IsPulls(r) == r.api = "pulls"
RECURSIVE NonNullMerged(_)
NonNullMerged(data) ==
  IF data = <<>> THEN <<>>
  ELSE (IF Head(data).merged_at /= NoneSeq THEN <<Head(data)>> ELSE <<>>)
       \o NonNullMerged(Tail(data))
RECURSIVE MergedItemsUpTo(_)
MergedItemsUpTo(n) ==
  IF n = 0 THEN <<>> ELSE MergedItemsUpTo(n - 1) \o NonNullMerged(upstream.pages[n].data)

\* C1: the REST fetcher requests page 1, 2, 3, ... in this order, requests
\* nothing after the first empty page, and what it has accumulated (and, once
\* it has returned, what it returned) is exactly the items with a non-null
\* merge timestamp of the pages before the empty one, in page order and,
\* within a page, in API order.
C1_RestFetcher ==
  pipeline = "rest" =>
    LET reqs == SelectSeq(requests, IsPulls)
        n == Len(reqs)
    IN /\ \A i \in 1..n : requests[i] = reqs[i] /\ reqs[i].page = i
       /\ \A i \in 1..(n - 1) : RestPageOf(i).status = 200 /\ RestPageOf(i).data /= <<>>
       /\ pc = "fetch" => (page = n + 1 /\ merged_prs = MergedItemsUpTo(n))
       /\ pc \in {"fetched", "write", "done", "crashed"} =>
            /\ n >= 1 /\ RestPageOf(n).status = 200 /\ RestPageOf(n).data = <<>>
            /\ merged_prs = MergedItemsUpTo(n - 1)
C1_Witness ==
  /\ pipeline = "rest" /\ pc = "fetched"
  /\ Len(requests) = 3 /\ requests[3].page = 3
  /\ Len(merged_prs) = 2
  /\ \E j \in DOMAIN RestPageOf(1).data : RestPageOf(1).data[j].merged_at = NoneSeq
  /\ \E j \in DOMAIN RestPageOf(2).data : RestPageOf(2).data[j].merged_at /= NoneSeq

\* ---- C2
\* The glob patterns the configuration file lists.
ConfiguredPatterns ==
  IF config.included_paths = PATHS_ONE THEN {<<"s","r","c","/","*",".","g","o">>}
  ELSE IF config.included_paths = PATHS_TWO THEN {<<"d","o","c","s","/","*">>, <<"s","r","c","/","?","a","i","n",".","g","o">>}
  ELSE {}
\* The (path, pattern) pairs of the model's paths and patterns that match
\* under shell-style wildcard matching.
ShellMatches ==
  {<<<<"s","r","c","/","m","a","i","n",".","g","o">>, <<"s","r","c","/","*",".","g","o">>>>, <<<<"s","r","c","/","m","a","i","n",".","g","o">>, <<"s","r","c","/","?","a","i","n",".","g","o">>>>,
   <<<<"d","o","c","s","/","r","e","a","d","m","e",".","m","d">>, <<"d","o","c","s","/","*">>>>}
InWindow(node) ==
  /\ DateNumber(config.start_date) <= MergeDay(node.mergedAt)
  /\ MergeDay(node.mergedAt) <= DateNumber(config.end_date)
ShouldBeKept(node) ==
  /\ node.mergedAt /= NoneSeq
  /\ InWindow(node)
  /\ \E f \in Range(node.files), pat \in ConfiguredPatterns : <<f, pat>> \in ShellMatches

\* C2: the sequence the GraphQL fetcher has accumulated contains a fetched
\* item if and only if its merge timestamp is not null, its merge day lies in
\* [start_date, end_date] as calendar dates, and one of its changed files
\* matches one of the configured glob patterns.
C2_GraphqlFilter ==
  pipeline = "graphql" =>
    \A node \in FetchedNodes : Accumulated(node.number) <=> ShouldBeKept(node)
C2_Witness ==
  /\ GraphqlReport
  /\ config.start_date = START_DATE /\ config.end_date = END_DATE
  /\ \E a, b \in FetchedNodes :
       /\ a.mergedAt = TS_BEFORE /\ ~Accumulated(a.number)
       /\ b.mergedAt = TS_END /\ b.files = <<<<"s","r","c","/","m","a","i","n",".","g","o">>, <<"R","E","A","D","M","E",".","m","d">>>>
       /\ Accumulated(b.number)

\* ---- C3
AllOlder(nodes) ==
  \A j \in DOMAIN nodes :
    nodes[j].mergedAt /= NoneSeq /\ MergeDay(nodes[j].mergedAt) < DateNumber(config.start_date)

\* C3: once every item of a fetched page was merged on a day before
\* start_date, that page is the last one requested: the loop has ended and no
\* later request exists, whatever the page's hasNextPage says.
C3_EarlyStop ==
  pipeline = "graphql" =>
    \A i \in 1..Len(requests) :
      (~GraphqlPageOf(i).errors /\ GraphqlPageOf(i).repository /\ AllOlder(GraphqlPageOf(i).nodes)) =>
        (i = Len(requests) /\ pc /= "fetch" /\ ~has_next_page)
C3_Witness ==
  /\ pipeline = "graphql" /\ pc = "done"
  /\ Len(requests) = 2
  /\ GraphqlPageOf(2).hasNextPage /\ GraphqlPageOf(2).nodes /= <<>>
  /\ AllOlder(GraphqlPageOf(2).nodes)
  /\ merged_prs /= <<>>

\* ---- C4
PageFailure(i) ==
  IF requests[i].api = "pulls" THEN RestPageOf(i).status /= 200
  ELSE IF requests[i].api = "graphql"
  THEN \/ ~GraphqlPageOf(i).json
       \/ GraphqlPageOf(i).errors
       \/ ~GraphqlPageOf(i).data
       \/ ~GraphqlPageOf(i).repository
  ELSE FALSE

\* C4: a page request that fails (REST: status other than 200; GraphQL: a body
\* that is not JSON, carries errors, or lacks data or the repository) is the
\* last request of the run, the run has exited, and the CSV file is as it was
\* when the run started.
C4_PageFailureIsFatal ==
  \A i \in 1..Len(requests) :
    PageFailure(i) => (i = Len(requests) /\ pc = "exited" /\ file = fileAtStart)
C4_Witness ==
  /\ Len(requests) >= 2 /\ PageFailure(Len(requests))
  /\ merged_prs /= <<>>
  /\ fileAtStart = StaleFile

\* ---- C5
\* C5 (as claimed): whatever follow-up calls fail, the REST run is never
\* aborted while it writes, each row written is that of the retained pull
\* request at the same position with the sentinel in each field whose call
\* failed, and a finished run has one row per retained pull request.
C5_EnrichmentNeverAborts ==
  RestReport =>
    /\ pc /= "crashed"
    /\ Len(file.rows) = idx - 1
    /\ pc = "done" => Len(file.rows) = Len(merged_prs)
    /\ \A i \in DOMAIN file.rows :
         LET n == merged_prs[i].number
         IN /\ file.rows[i].number = n
            /\ upstream.reviews[n].status /= 200 => file.rows[i].approved_by = ""
            /\ upstream.files[n].status /= 200 => file.rows[i].files = <<>>
            /\ upstream.pull[n].status /= 200 => file.rows[i].merged_by = "N/A"

\* ---- C6
\* C6 (as claimed): a second run against the same responses and the same
\* configuration leaves a CSV file with the same rows as the first.
C6_RerunSameRows ==
  (run = 2 /\ pc = "done" /\ prevPc = "done") => file = prevFile

\* ---- C7
\* C7: the first request carries no cursor; every later request carries the
\* end cursor of the response just before it, which said hasNextPage; unless
\* the early stop fires the loop goes on after a response that says
\* hasNextPage and ends at the first that does not; and the loop terminates:
\* no cursor is sent twice and every request but the last brings at least one
\* new item, so a run issues at most one request more than the endpoint
\* holds items.
C7_CursorPagination ==
  pipeline = "graphql" =>
    /\ requests /= <<>> => requests[1].after = PyNone
    /\ \A i \in 2..Len(requests) :
         /\ requests[i].after = GraphqlPageOf(i - 1).endCursor
         /\ requests[i].after /= PyNone
         /\ GraphqlPageOf(i - 1).hasNextPage
    /\ (requests /= <<>> /\ ~PageFailure(Len(requests))) =>
         LET last == GraphqlPageOf(Len(requests))
         IN /\ (last.hasNextPage /\ ~AllOlder(last.nodes)) => pc = "fetch"
            /\ ~last.hasNextPage => pc /= "fetch"
    /\ \A i, j \in 1..Len(requests) : i /= j => requests[i].after /= requests[j].after
    /\ Len(requests) <= Cardinality(FetchedNodes) + 1
    /\ Len(requests) <= MaxItems + 1
C7_Witness ==
  /\ pipeline = "graphql" /\ pc = "fetched"
  /\ Len(requests) = 3
  /\ requests[2].after = "cursor1" /\ requests[3].after = "cursor2"
  /\ ~GraphqlPageOf(3).hasNextPage /\ ~AllOlder(GraphqlPageOf(3).nodes)

\* ---- C8
NullOrAbsent(v) == v \in {PyNone, Absent}
\* C8 (as claimed): a pull request whose title, author, merging user or merge
\* commit id is null or missing at the source does not stop the run, and its
\* row holds "N/A" in that column.
C8_TextFieldsDefault ==
  /\ RestReport =>
       \A i \in DOMAIN merged_prs :
         LET pr == merged_prs[i]
         IN /\ (NullOrAbsent(pr.title) \/ NullOrAbsent(pr.user)
                  \/ NullOrAbsent(pr.merge_commit_sha)) =>
                 ~(pc = "crashed" /\ idx = i /\ requests[Len(requests)].api = "pull")
            /\ i \in DOMAIN file.rows =>
                 /\ NullOrAbsent(pr.title) => file.rows[i].title = "N/A"
                 /\ NullOrAbsent(pr.user) => file.rows[i].author = "N/A"
                 /\ NullOrAbsent(pr.merge_commit_sha) => file.rows[i].merge_commit_sha = "N/A"
                 /\ (upstream.pull[pr.number].status = 200
                       /\ upstream.pull[pr.number].merged_by = PyNone) =>
                      file.rows[i].merged_by = "N/A"
  /\ GraphqlReport =>
       \A i \in DOMAIN file.rows :
         LET node == NodeOf(file.rows[i].number)
         IN /\ node.author = PyNone => file.rows[i].author = "N/A"
            /\ node.mergedBy = PyNone => file.rows[i].merged_by = "N/A"
            /\ node.mergeCommit = PyNone => file.rows[i].merge_commit_sha = "N/A"

\* ---- C9
Logins == {"alice", "bob", "carol"}
\* The texts that list each login of S exactly once, separated by ", ".
OnceEach(S) ==
  {JoinStr(o, ", ") :
     o \in {s \in [1..Cardinality(S) -> S] :
              \A l \in S : Cardinality({i \in DOMAIN s : s[i] = l}) = 1}}
\* The logins with at least one APPROVED review among the reviews returned.
RestApprovers(n) ==
  {l \in Logins : \E i \in DOMAIN upstream.reviews[n].data :
     upstream.reviews[n].data[i].user = l /\ upstream.reviews[n].data[i].state = "APPROVED"}
GraphqlApprovers(node) == {l \in Logins : \E i \in DOMAIN node.reviews : node.reviews[i] = l}

\* C9: the approved_by text of every row (REST) and of every accumulated
\* record (GraphQL) lists exactly once each login that authored an APPROVED
\* review among the reviews returned for the pull request, and no other login.
C9_ApproversOnce ==
  /\ RestReport =>
       \A i \in DOMAIN file.rows :
         file.rows[i].approved_by \in OnceEach(RestApprovers(merged_prs[i].number))
  /\ pipeline = "graphql" =>
       \A i \in DOMAIN merged_prs :
         merged_prs[i].approved_by \in OnceEach(GraphqlApprovers(NodeOf(merged_prs[i].number)))
C9_Witness ==
  /\ RestReport /\ pc = "done"
  /\ upstream.reviews[1].status = 200
  /\ upstream.reviews[1].data =
       <<[user |-> "alice", state |-> "APPROVED"], [user |-> "alice", state |-> "APPROVED"]>>
  /\ file.rows[1].number = 1
  /\ file.rows[1].approved_by = "alice"

\* ---- C10
KeyMissing ==
  \/ config.github_token = PyNone \/ config.repo_owner = PyNone
  \/ config.repo_name = PyNone
  \/ /\ pipeline = "graphql"
     /\ \/ config.included_paths = NoneSeq
        \/ config.start_date = NoneSeq
        \/ config.end_date = NoneSeq

\* C10 (as claimed): a run whose configuration lacks one of its keys exits
\* in load_config and never issues a request.
C10_ConfigGate ==
  KeyMissing => (requests = <<>> /\ pc \in {"start", "exited"})
====
